---- MODULE Spec2Model ----
(***************************************************************************)
(* Model of lerobot/common/robot_devices/control_utils.py: the keyboard    *)
(* listener and its shared event flags, control_loop and reset_environment *)
(* as run by the main thread, and the pynput listener thread running       *)
(* on_press concurrently with them.                                        *)
(*                                                                         *)
(* Time is counted in ticks; one second is TicksPerSec ticks.  A frame     *)
(* rate fps has the period TicksPerSec / fps ticks, and only the rates     *)
(* that divide TicksPerSec are used so that the period is exact.           *)
(***************************************************************************)
EXTENDS Integers, Sequences, FiniteSets, TLC

\* ---------------------------------------------------------------- bounds
TicksPerSec == 2
MaxT == 4
MaxWork == 2
MaxKeys == 2
MaxPhases == 2
MaxResetS == 3
MaxOversleep == 1
MaxIter == 2
MaxTKeys == 2
MaxRepoLen == 4

\* Python's None for the optional integer arguments (fps, control_time_s,
\* dataset); every real value of these arguments is >= 0.
None == -1

FpsValues == {f \in 1..TicksPerSec : TicksPerSec % f = 0}

VARIABLES
    headless,    \* result of is_headless(), fixed for the process (@cache)
    listener,    \* "unset" | "None" | "started" | "stopped"
    events,      \* the shared dict made by init_keyboard_listener
    kpc,         \* listener thread: position inside on_press
    keys,        \* number of key presses delivered so far
    robot,       \* [is_connected]
    pc,          \* main thread position
    args,        \* arguments of the running (or last) phase
    timestamp,   \* local `timestamp` of the running phase, in ticks
    iter,        \* iterations (control_loop) or ticks (reset_environment) begun
    error,       \* exception that left the phase: [type, names]
    io,          \* calls made by the running phase on robot and dataset
    phases,      \* phases invoked so far
    hist         \* observations about the running phase (history only)

vars == <<headless, listener, events, kpc, keys, robot, pc, args, timestamp,
          iter, error, io, phases, hist>>

NoArgs ==
    [fn |-> "none", caller |-> "none", teleoperate |-> FALSE,
     policy |-> "None", dataset |-> None, fps |-> None,
     control_time_s |-> None, shared_events |-> TRUE, reset_time_s |-> 0,
     display_cameras |-> FALSE, listener |-> "None", compat |-> <<>>,
     enable_teleoperation |-> FALSE, has_safety_stop |-> FALSE,
     repo_id |-> <<>>, policy_cfg |-> "None"]

NoError == [type |-> "none", line |-> 0, names |-> {}, fields |-> <<>>]

NoIO ==
    [connect |-> 0, teleop_step |-> 0, capture_observation |-> 0,
     predict_action |-> 0, send_action |-> 0, add_frame |-> 0,
     safety_stop |-> 0, writer_stop |-> 0, disconnect |-> 0,
     listener_stop |-> 0, destroy_windows |-> 0]

\* the actions of the iteration in progress: the one predicted, the one the
\* robot reports as applied, the one put in the frame
NoAct == [pred |-> "none", applied |-> "none", stored |-> "none"]

NoSet == [iter |-> 0, pc |-> "none", keys |-> 0]

NoHist ==
    [observed |-> FALSE, cleared |-> FALSE, setAt |-> NoSet, pending |-> 0,
     erased |-> 0, overruns |-> 0, startFlag |-> FALSE, wait |-> 0,
     act |-> NoAct]

\* is_headless(): the import of pynput either works or not; cached.
is_headless == headless

has_method_always(a) == TRUE

\* has_method(robot, "teleop_safety_stop"), for the robot of the call a
has_method(a) == a.has_safety_stop

\* the loop test written with <= : one iteration too many when the time is
\* reached exactly
TimeLeft_le(ts, ct) == ct = None \/ ts <= ct

\* `timestamp < control_time_s`, with None turned into float("inf")
TimeLeft(ts, ct) == ct = None \/ ts < ct

\* 1 / fps, in ticks
Period(fps) == TicksPerSec \div fps

Init ==
    /\ headless \in BOOLEAN
    /\ listener = "unset"
    /\ events = [exit_early |-> FALSE, rerecord_episode |-> FALSE,
                 stop_recording |-> FALSE]
    /\ kpc = "idle"
    /\ keys = 0
    /\ robot \in [is_connected : BOOLEAN]
    /\ pc = "start"
    /\ args = NoArgs
    /\ timestamp = 0
    /\ iter = 0
    /\ error = NoError
    /\ io = NoIO
    /\ phases = 0
    /\ hist = NoHist

\* init_keyboard_listener without the headless early return
InitKeyboardListener_always ==
    /\ pc = "start"
    /\ events' = [exit_early |-> FALSE, rerecord_episode |-> FALSE,
                  stop_recording |-> FALSE]
    /\ listener' = "started"
    /\ pc' = "idle"
    /\ UNCHANGED <<headless, kpc, keys, robot, args, timestamp, iter, error,
                   io, phases, hist>>

\* --------------------------------------------------- init_keyboard_listener
InitKeyboardListener ==
    /\ pc = "start"
    /\ events' = [exit_early |-> FALSE, rerecord_episode |-> FALSE,
                  stop_recording |-> FALSE]
    /\ listener' = IF is_headless THEN "None" ELSE "started"
    /\ pc' = "idle"
    /\ UNCHANGED <<headless, kpc, keys, robot, args, timestamp, iter, error,
                   io, phases, hist>>

\* ------------------------------------------------------ listener thread
\* History of a listener write to exit_early: the first write of this phase
\* that turns the flag from false to true is remembered with the iteration
\* and the position of the main thread at that moment; a write that lands
\* after the main thread's read and before its reset is counted as pending.
HistOnSet(k) ==
    [hist EXCEPT
       !.setAt = IF /\ hist.setAt = NoSet
                    /\ ~events.exit_early
                    /\ pc \in {"cl_while", "cl_check"}
                 THEN [iter |-> iter, pc |-> pc, keys |-> k]
                 ELSE hist.setAt,
       !.pending = IF pc \in {"cl_clear", "re_clear"}
                   THEN hist.pending + 1 ELSE hist.pending]

\* The listener takes a key while it runs and its process lives: an
\* exception that leaves the main thread ends the process, and the daemon
\* listener thread with it.
ListenerIdle ==
    /\ listener = "started"
    /\ kpc = "idle"
    /\ keys < MaxKeys
    /\ pc # "raised"

\* key == keyboard.Key.right
OnPressRight ==
    /\ ListenerIdle
    /\ keys' = keys + 1
    /\ events' = [events EXCEPT !.exit_early = TRUE]
    /\ hist' = HistOnSet(keys + 1)
    /\ UNCHANGED <<headless, listener, kpc, robot, pc, args, timestamp, iter,
                   error, io, phases>>

\* key == keyboard.Key.left, first assignment
OnPressLeft ==
    /\ ListenerIdle
    /\ keys' = keys + 1
    /\ events' = [events EXCEPT !.rerecord_episode = TRUE]
    /\ kpc' = "left"
    /\ UNCHANGED <<headless, listener, robot, pc, args, timestamp, iter, error,
                   io, phases, hist>>

\* key == keyboard.Key.esc, first assignment
OnPressEsc ==
    /\ ListenerIdle
    /\ keys' = keys + 1
    /\ events' = [events EXCEPT !.stop_recording = TRUE]
    /\ kpc' = "esc"
    /\ UNCHANGED <<headless, listener, robot, pc, args, timestamp, iter, error,
                   io, phases, hist>>

\* the left and esc branches without their second assignment
OnPressSetExit_skip ==
    /\ kpc \in {"left", "esc"}
    /\ kpc' = "idle"
    /\ UNCHANGED <<headless, listener, events, keys, robot, pc, args,
                   timestamp, iter, error, io, phases, hist>>

\* second assignment of the left and esc branches
OnPressSetExit ==
    /\ kpc \in {"left", "esc"}
    /\ events' = [events EXCEPT !.exit_early = TRUE]
    /\ kpc' = "idle"
    /\ hist' = HistOnSet(keys)
    /\ UNCHANGED <<headless, listener, keys, robot, pc, args, timestamp, iter,
                   error, io, phases>>

\* ------------------------------------------------------------ control_loop
\* The events dict control_loop works on: the shared one, or, when called
\* with events=None, a private {"exit_early": False} that nothing else can
\* reach, so that its flag reads false for the whole call.
ReadExit == IF args.shared_events THEN events.exit_early ELSE FALSE

\* The values `dataset['fps']` can produce while the error message of the
\* frame-rate check is formatted: the object is subscripted like a sequence
\* of frames, not read like the attribute dataset.fps tested one line above.
SubscriptOutcomes ==
    {[raised |-> TRUE, value |-> None]}
        \cup {[raised |-> FALSE, value |-> v] : v \in FpsValues}

\* busy_wait(seconds): the time actually waited
busy_wait(seconds) == IF seconds > 0 THEN seconds ELSE 0

\* The decorator around control_loop, on an exception: the dataset's image
\* writer is stopped, then the exception goes on to the caller.
safe_stop_image_writer(calls) ==
    IF args.dataset # None THEN [calls EXCEPT !.writer_stop = @ + 1] ELSE calls

\* The durations a phase is run with: up to MaxT ticks, and up to MaxTKeys
\* ticks in a session whose listener is running.
ControlTimes ==
    {None} \cup (0..(IF listener = "started" THEN MaxTKeys ELSE MaxT))

\* The arguments of a call.  A dataset is given by its fps.  A session that
\* has a listener hands its events dict to every phase, as warmup_record and
\* record_episode do; events=None is passed in sessions without one.
ControlLoopArgs ==
    [fn : {"control_loop"}, caller : {"direct"}, teleoperate : BOOLEAN,
     policy : {"None", "policy"},
     dataset : {None} \cup FpsValues, fps : {None} \cup FpsValues,
     control_time_s : ControlTimes,
     shared_events : IF listener = "started" THEN {TRUE} ELSE BOOLEAN,
     reset_time_s : {0}, display_cameras : {FALSE},
     listener : {"None"}, compat : {<<>>}, enable_teleoperation : {FALSE},
     has_safety_stop : {FALSE}, repo_id : {<<>>}, policy_cfg : {"None"}]

\* entry of control_loop, called with the arguments a, up to the defaults
ControlLoopEntry(a) ==
    /\ args' = a
    /\ phases' = phases + 1
    /\ IF ~robot.is_connected
       THEN /\ robot' = [robot EXCEPT !.is_connected = TRUE]
            /\ io' = [NoIO EXCEPT !.connect = 1]
       ELSE /\ robot' = robot
            /\ io' = NoIO
    /\ timestamp' = 0
    /\ iter' = 0
    /\ error' = NoError
    /\ hist' = [NoHist EXCEPT !.startFlag = events.exit_early]
    /\ pc' = "cl_validate"
    /\ UNCHANGED <<headless, listener, events, kpc, keys>>

\* a phase can start when the main thread is between phases
CanCall == pc = "idle" /\ phases < MaxPhases

\* a direct call of control_loop
ControlLoopCall ==
    /\ CanCall
    /\ \E a \in ControlLoopArgs : ControlLoopEntry(a)

\* the configured duration of a phase
PhaseTimes == ControlTimes \ {None}

warmup_record_teleop(enable_teleoperation, warmup_time_s, fps) ==
    [NoArgs EXCEPT !.fn = "control_loop", !.caller = "warmup_record",
                   !.enable_teleoperation = enable_teleoperation,
                   !.control_time_s = warmup_time_s, !.fps = fps,
                   !.teleoperate = TRUE]

\* warmup_record: the arguments it calls control_loop with; dataset and
\* policy keep their defaults, events is the session's dict
warmup_record(enable_teleoperation, warmup_time_s, fps) ==
    [NoArgs EXCEPT !.fn = "control_loop", !.caller = "warmup_record",
                   !.enable_teleoperation = enable_teleoperation,
                   !.control_time_s = warmup_time_s, !.fps = fps,
                   !.teleoperate = enable_teleoperation]

WarmupRecordCall ==
    /\ CanCall
    /\ \E e \in BOOLEAN, t \in PhaseTimes, f \in {None} \cup FpsValues :
         ControlLoopEntry(warmup_record(e, t, f))

record_episode_teleop(dataset, episode_time_s, policy, fps) ==
    [NoArgs EXCEPT !.fn = "control_loop", !.caller = "record_episode",
                   !.dataset = dataset, !.control_time_s = episode_time_s,
                   !.policy = policy, !.fps = fps, !.teleoperate = TRUE]

\* record_episode: the arguments it calls control_loop with
record_episode(dataset, episode_time_s, policy, fps) ==
    [NoArgs EXCEPT !.fn = "control_loop", !.caller = "record_episode",
                   !.dataset = dataset, !.control_time_s = episode_time_s,
                   !.policy = policy, !.fps = fps,
                   !.teleoperate = (policy = "None")]

RecordEpisodeCall ==
    /\ CanCall
    /\ \E d \in FpsValues, t \in PhaseTimes, p \in {"None", "policy"},
          f \in {None} \cup FpsValues :
         ControlLoopEntry(record_episode(d, t, p, f))

\* the two configuration checks, then timestamp = 0
CL_Validate ==
    /\ pc = "cl_validate"
    /\ IF args.teleoperate /\ args.policy # "None"
       THEN /\ error' = [NoError EXCEPT !.type = "ValueError", !.line = 225]
            /\ io' = safe_stop_image_writer(io)
            /\ pc' = "raised"
       ELSE IF args.dataset # None /\ args.fps # None /\ args.dataset # args.fps
       THEN /\ \E sub \in SubscriptOutcomes :
                 error' = IF sub.raised
                          THEN [NoError EXCEPT !.type = "SubscriptError",
                                               !.line = 228]
                          ELSE [NoError EXCEPT !.type = "ValueError",
                                               !.line = 228,
                                               !.names = {sub.value, args.fps}]
            /\ io' = safe_stop_image_writer(io)
            /\ pc' = "raised"
       ELSE /\ error' = error
            /\ io' = io
            /\ pc' = "cl_while"
    /\ UNCHANGED <<headless, listener, events, kpc, keys, robot, args,
                   timestamp, iter, phases, hist>>

\* the local `action` is bound by the teleoperation branch or by the policy
\* branch, and by nothing else
ActionBound == args.teleoperate \/ args.policy # "None"

\* robot, policy and dataset calls of one iteration: teleoperation, or
\* observation and (with a policy) the predicted action sent; then the
\* recording step
Act(calls) ==
    LET c1 == IF args.teleoperate
              THEN [calls EXCEPT !.teleop_step = @ + 1]
              ELSE IF args.policy # "None"
              THEN [calls EXCEPT !.capture_observation = @ + 1,
                                 !.predict_action = @ + 1,
                                 !.send_action = @ + 1]
              ELSE [calls EXCEPT !.capture_observation = @ + 1]
    IN  IF args.dataset # None /\ ActionBound
        THEN [c1 EXCEPT !.add_frame = @ + 1]
        ELSE c1

\* the calls of an iteration that can raise, for the mode of the call
FailPoints ==
    IF args.teleoperate THEN {"teleop_step"}
    ELSE IF args.policy # "None"
    THEN {"capture_observation", "predict_action", "send_action"}
    ELSE {"capture_observation"}

FailLine(f) ==
    CASE f = "teleop_step" -> 239
      [] f = "capture_observation" -> 241
      [] f = "predict_action" -> 244
      [] OTHER -> 247

ActUntil_retry(calls, f) ==
    CASE f = "teleop_step" -> [calls EXCEPT !.teleop_step = @ + 2]
      [] f = "capture_observation" ->
            [calls EXCEPT !.capture_observation = @ + 2]
      [] f = "predict_action" ->
            [calls EXCEPT !.capture_observation = @ + 1,
                          !.predict_action = @ + 2]
      [] OTHER ->
            [calls EXCEPT !.capture_observation = @ + 1,
                          !.predict_action = @ + 1,
                          !.send_action = @ + 2]

\* the calls made by an iteration in which the call f raised
ActUntil(calls, f) ==
    CASE f = "teleop_step" -> [calls EXCEPT !.teleop_step = @ + 1]
      [] f = "capture_observation" ->
            [calls EXCEPT !.capture_observation = @ + 1]
      [] f = "predict_action" ->
            [calls EXCEPT !.capture_observation = @ + 1,
                          !.predict_action = @ + 1]
      [] OTHER ->
            [calls EXCEPT !.capture_observation = @ + 1,
                          !.predict_action = @ + 1,
                          !.send_action = @ + 1]

\* what robot.send_action can report for the predicted action: the action
\* itself, or a clipped one
AppliedOutcomes == {"pred", "clipped"}

RecordedAction_pred(pred, applied) == pred

\* the action merged into the frame: the one the robot reported
RecordedAction(pred, applied) == applied

\* the actions of an iteration in which the robot reported `applied`
Actions(applied) ==
    LET pred == IF ~args.teleoperate /\ args.policy # "None"
                THEN "pred" ELSE "none"
    IN  [pred |-> pred, applied |-> applied,
         stored |-> IF args.dataset # None
                    THEN RecordedAction(pred, applied) ELSE "none"]

WaitArg_clamped(w) ==
    IF Period(args.fps) - w > 0 THEN Period(args.fps) - w ELSE 0

\* 1 / fps - dt_s, the argument of busy_wait, for work that took w
WaitArg(w) == Period(args.fps) - w

\* dt_s of an iteration whose work took w: the work and the wait for the
\* rest of the period
IterationTime(w) ==
    IF args.fps # None THEN w + busy_wait(WaitArg(w)) ELSE w

\* while timestamp < control_time_s: one iteration up to the new timestamp,
\* or the end of the loop.  An iteration ends early when one of its calls
\* raises, or at the recording step when no action is bound.  A run without
\* time limit is followed for MaxIter iterations.
CL_Iterate ==
    /\ pc = "cl_while"
    /\ IF ~TimeLeft(timestamp, args.control_time_s)
       THEN /\ pc' = "returned"
            /\ UNCHANGED <<iter, io, error, timestamp, hist>>
       ELSE /\ args.control_time_s = None => iter < MaxIter
            /\ iter' = iter + 1
            /\ \/ \E f \in FailPoints :
                    /\ io' = safe_stop_image_writer(ActUntil(io, f))
                    /\ error' = [NoError EXCEPT !.type = "DeviceError",
                                                !.line = FailLine(f)]
                    /\ pc' = "raised"
                    /\ UNCHANGED <<timestamp, hist>>
               \/ /\ args.dataset # None /\ ~ActionBound
                  /\ io' = safe_stop_image_writer(Act(io))
                  /\ error' = [NoError EXCEPT !.type = "UnboundLocalError",
                                              !.line = 251]
                  /\ pc' = "raised"
                  /\ UNCHANGED <<timestamp, hist>>
               \/ /\ ~(args.dataset # None /\ ~ActionBound)
                  /\ io' = Act(io)
                  /\ error' = error
                  /\ pc' = "cl_check"
                  /\ \E w \in 1..MaxWork :
                     \E applied \in IF args.teleoperate THEN {"teleop"}
                                    ELSE IF args.policy # "None"
                                    THEN AppliedOutcomes ELSE {"none"} :
                       /\ timestamp' = timestamp + IterationTime(w)
                       /\ hist' =
                            [hist EXCEPT
                               !.overruns =
                                  IF args.fps # None /\ w > Period(args.fps)
                                  THEN @ + 1 ELSE @,
                               !.wait = IF args.fps # None
                                        THEN WaitArg(w) ELSE 0,
                               !.act = Actions(applied)]
    /\ UNCHANGED <<headless, listener, events, kpc, keys, robot, args, phases>>

\* if events["exit_early"]: the read, which ends the iteration in progress
CL_Check ==
    /\ pc = "cl_check"
    /\ IF ReadExit
       THEN /\ pc' = "cl_clear"
            /\ hist' = [hist EXCEPT !.observed = TRUE, !.pending = 0,
                                    !.wait = 0, !.act = NoAct]
       ELSE /\ pc' = "cl_while"
            /\ hist' = [hist EXCEPT !.wait = 0, !.act = NoAct]
    /\ UNCHANGED <<headless, listener, events, kpc, keys, robot, args,
                   timestamp, iter, error, io, phases>>

\* the reset followed by `continue` instead of `break`
CL_Clear_continue ==
    /\ pc = "cl_clear"
    /\ events' = IF args.shared_events
                 THEN [events EXCEPT !.exit_early = FALSE]
                 ELSE events
    /\ hist' = [hist EXCEPT !.cleared = TRUE, !.erased = @ + hist.pending,
                            !.pending = 0]
    /\ pc' = "cl_while"
    /\ UNCHANGED <<headless, listener, kpc, keys, robot, args, timestamp,
                   iter, error, io, phases>>

\* `break` without the reset of the flag
CL_Clear_keep ==
    /\ pc = "cl_clear"
    /\ hist' = [hist EXCEPT !.cleared = TRUE, !.pending = 0]
    /\ pc' = "returned"
    /\ UNCHANGED <<headless, listener, events, kpc, keys, robot, args,
                   timestamp, iter, error, io, phases>>

\* events["exit_early"] = False; break
CL_Clear ==
    /\ pc = "cl_clear"
    /\ events' = IF args.shared_events
                 THEN [events EXCEPT !.exit_early = FALSE]
                 ELSE events
    /\ hist' = [hist EXCEPT !.cleared = TRUE, !.erased = @ + hist.pending,
                            !.pending = 0]
    /\ pc' = "returned"
    /\ UNCHANGED <<headless, listener, kpc, keys, robot, args, timestamp,
                   iter, error, io, phases>>

\* ------------------------------------------------------- reset_environment
\* entry, with a robot that has the method teleop_safety_stop or lacks it:
\* the optional safety stop, then timestamp = 0
ResetEnvironmentCall ==
    /\ pc = "idle"
    /\ phases < MaxPhases
    /\ \E r \in 0..MaxResetS, h \in BOOLEAN :
         args' = [NoArgs EXCEPT !.fn = "reset_environment", !.reset_time_s = r,
                               !.has_safety_stop = h]
    /\ phases' = phases + 1
    /\ io' = IF has_method(args') THEN [NoIO EXCEPT !.safety_stop = 1]
                                  ELSE NoIO
    /\ timestamp' = 0
    /\ iter' = 0
    /\ error' = NoError
    /\ hist' = [NoHist EXCEPT !.startFlag = events.exit_early]
    /\ pc' = "re_while"
    /\ UNCHANGED <<headless, listener, events, kpc, keys, robot>>

RE_Tick_count ==
    /\ pc = "re_while"
    /\ IF iter < args.reset_time_s
       THEN /\ iter' = iter + 1
            /\ \E late \in 0..MaxOversleep :
                 timestamp' = timestamp + TicksPerSec + late
            /\ pc' = "re_check"
       ELSE /\ UNCHANGED <<iter, timestamp>>
            /\ pc' = "returned"
    /\ UNCHANGED <<headless, listener, events, kpc, keys, robot, args, error,
                   io, phases, hist>>

\* while timestamp < reset_time_s: one tick, time.sleep(1) (which may return
\* late) and the new timestamp, or the end of the loop
RE_Tick ==
    /\ pc = "re_while"
    /\ IF timestamp < args.reset_time_s * TicksPerSec
       THEN /\ iter' = iter + 1
            /\ \E late \in 0..MaxOversleep :
                 timestamp' = timestamp + TicksPerSec + late
            /\ pc' = "re_check"
       ELSE /\ UNCHANGED <<iter, timestamp>>
            /\ pc' = "returned"
    /\ UNCHANGED <<headless, listener, events, kpc, keys, robot, args, error,
                   io, phases, hist>>

\* if events["exit_early"]: the read
RE_Check ==
    /\ pc = "re_check"
    /\ IF events.exit_early
       THEN /\ pc' = "re_clear"
            /\ hist' = [hist EXCEPT !.observed = TRUE, !.pending = 0]
       ELSE /\ pc' = "re_while"
            /\ hist' = hist
    /\ UNCHANGED <<headless, listener, events, kpc, keys, robot, args,
                   timestamp, iter, error, io, phases>>

RE_Clear_all ==
    /\ pc = "re_clear"
    /\ events' = [k \in DOMAIN events |-> FALSE]
    /\ hist' = [hist EXCEPT !.cleared = TRUE, !.erased = @ + hist.pending,
                            !.pending = 0]
    /\ pc' = "returned"
    /\ UNCHANGED <<headless, listener, kpc, keys, robot, args, timestamp,
                   iter, error, io, phases>>

\* events["exit_early"] = False; break
RE_Clear ==
    /\ pc = "re_clear"
    /\ events' = [events EXCEPT !.exit_early = FALSE]
    /\ hist' = [hist EXCEPT !.cleared = TRUE, !.erased = @ + hist.pending,
                            !.pending = 0]
    /\ pc' = "returned"
    /\ UNCHANGED <<headless, listener, kpc, keys, robot, args, timestamp,
                   iter, error, io, phases>>

\* The phase has returned to its caller: its frame and locals are gone.
PhaseReturn ==
    /\ pc = "returned"
    /\ pc' = "idle"
    /\ args' = NoArgs
    /\ timestamp' = 0
    /\ iter' = 0
    /\ io' = NoIO
    /\ hist' = NoHist
    /\ UNCHANGED <<headless, listener, events, kpc, keys, robot, error, phases>>

\* ------------------------------- sanity_check_dataset_robot_compatibility
\* A value is given by its leaves, one per path: a scalar has the one path
\* "root", a feature description has a shape and the info added by encoding.
Scalar(v) == [root |-> v]

RobotTypes == {"koch", "so100"}

FeatureValues ==
    {[shape |-> 1, info |-> "a"], [shape |-> 1, info |-> "b"],
     [shape |-> 2, info |-> "a"]}

\* DeepDiff(a, b, exclude_regex_paths=[r".*\['info'\]$"]): the paths at which
\* the two values differ, those ending in 'info' left out
DeepDiff(a, b) ==
    {p \in (DOMAIN a \cup DOMAIN b) \ {"info"} :
        \/ p \notin DOMAIN a
        \/ p \notin DOMAIN b
        \/ a[p] # b[p]}

\* the inputs of a check: the dataset's metadata and the present values
CompatInputs ==
    [dataset : [robot_type : RobotTypes, fps : FpsValues,
                features : FeatureValues],
     robot_type : RobotTypes, fps : FpsValues,
     features : {[shape |-> 1, info |-> "a"]}]

\* fields: (field, dataset_value, present_value), in the order of the list
Fields(c) ==
    << [field |-> "robot_type", dataset_value |-> Scalar(c.dataset.robot_type),
        present_value |-> Scalar(c.robot_type)],
       [field |-> "fps", dataset_value |-> Scalar(c.dataset.fps),
        present_value |-> Scalar(c.fps)],
       [field |-> "features", dataset_value |-> c.dataset.features,
        present_value |-> c.features] >>

Mismatches_first(fields) ==
    LET differs(f) == DeepDiff(f.dataset_value, f.present_value) # {}
        all == SelectSeq(fields, differs)
    IN  IF all = <<>> THEN <<>>
        ELSE << [field |-> Head(all).field,
                 expected |-> Head(all).present_value,
                 got |-> Head(all).dataset_value] >>

\* the loop over fields: one entry "field: expected ..., got ..." for every
\* field whose diff is not empty
Mismatches(fields) ==
    LET differs(f) == DeepDiff(f.dataset_value, f.present_value) # {}
        all == SelectSeq(fields, differs)
    IN  [i \in 1..Len(all) |->
            [field |-> all[i].field, expected |-> all[i].present_value,
             got |-> all[i].dataset_value]]

\* the whole check, run when a session resumes a dataset, before its phases
sanity_check_dataset_robot_compatibility ==
    /\ pc = "idle"
    /\ phases = 0
    /\ \E c \in CompatInputs :
         /\ args' = [NoArgs EXCEPT
                       !.fn = "sanity_check_dataset_robot_compatibility",
                       !.compat = c]
         /\ LET mismatches == Mismatches(Fields(c))
            IN  IF mismatches # <<>>
                THEN /\ error' = [NoError EXCEPT !.type = "ValueError",
                                                 !.line = 338,
                                                 !.fields = mismatches]
                     /\ pc' = "raised"
                ELSE /\ error' = NoError
                     /\ pc' = "returned"
    /\ timestamp' = 0
    /\ iter' = 0
    /\ io' = NoIO
    /\ hist' = NoHist
    /\ UNCHANGED <<headless, listener, events, kpc, keys, robot, phases>>

\* -------------------------------------------------- sanity_check_dataset_name
\* A repo id is a string, given as its pieces: the separator "/", the prefix
\* "eval_", and "x" for any other text.
Tokens == {"/", "eval_", "x"}

RepoIds == UNION {[1..n -> Tokens] : n \in 0..MaxRepoLen}

RECURSIVE split(_)
\* repo_id.split("/"): the pieces between the separators, empty ones included
split(s) ==
    IF \A i \in 1..Len(s) : s[i] # "/"
    THEN <<s>>
    ELSE LET i == CHOOSE j \in 1..Len(s) :
                    s[j] = "/" /\ \A k \in 1..(j - 1) : s[k] # "/"
         IN  <<SubSeq(s, 1, i - 1)>> \o split(SubSeq(s, i + 1, Len(s)))

\* dataset_name.startswith("eval_")
startswith(name) == Len(name) >= 1 /\ name[1] = "eval_"

\* The outcome of the check: the unpacking of the split needs exactly two
\* pieces; the message of the first raise reads policy_cfg.type, with
\* policy_cfg None, before the ValueError is made.
sanity_check_dataset_name(repo_id, policy_cfg) ==
    IF Len(split(repo_id)) # 2
    THEN [NoError EXCEPT !.type = "ValueError", !.line = 305]
    ELSE LET dataset_name == split(repo_id)[2]
         IN  IF startswith(dataset_name) /\ policy_cfg = "None"
             THEN [NoError EXCEPT !.type = "AttributeError", !.line = 312]
             ELSE IF ~startswith(dataset_name) /\ policy_cfg # "None"
             THEN [NoError EXCEPT !.type = "ValueError", !.line = 317]
             ELSE NoError

\* the check of the name, run when a session is set up, before its phases
SanityCheckDatasetName ==
    /\ pc = "idle"
    /\ phases = 0
    /\ \E r \in RepoIds, p \in {"None", "policy"} :
         /\ args' = [NoArgs EXCEPT !.fn = "sanity_check_dataset_name",
                                   !.repo_id = r, !.policy_cfg = p]
         /\ error' = sanity_check_dataset_name(r, p)
         /\ pc' = IF sanity_check_dataset_name(r, p) = NoError
                  THEN "returned" ELSE "raised"
    /\ timestamp' = 0
    /\ iter' = 0
    /\ io' = NoIO
    /\ hist' = NoHist
    /\ UNCHANGED <<headless, listener, events, kpc, keys, robot, phases>>

\* ----------------------------------------------------------- stop_recording
StopRecording_headed ==
    /\ pc = "idle"
    /\ \E l \in {listener, "None"}, d \in BOOLEAN :
         /\ args' = [NoArgs EXCEPT !.fn = "stop_recording",
                                   !.display_cameras = d, !.listener = l]
         /\ io' = [NoIO EXCEPT
                     !.disconnect = 1,
                     !.listener_stop = IF l # "None" THEN 1 ELSE 0,
                     !.destroy_windows = IF d THEN 1 ELSE 0]
         /\ listener' = IF l # "None" THEN "stopped" ELSE listener
    /\ robot' = [robot EXCEPT !.is_connected = FALSE]
    /\ error' = NoError
    /\ timestamp' = 0
    /\ iter' = 0
    /\ hist' = NoHist
    /\ pc' = "stopped"
    /\ UNCHANGED <<headless, events, kpc, keys, phases>>

\* The end of a session, called with the session's listener handle or with
\* None: robot.disconnect(), then, unless headless, listener.stop() for a
\* handle and cv2.destroyAllWindows() when cameras were displayed.
StopRecording ==
    /\ pc = "idle"
    /\ \E l \in {listener, "None"}, d \in BOOLEAN :
         /\ args' = [NoArgs EXCEPT !.fn = "stop_recording",
                                   !.display_cameras = d, !.listener = l]
         /\ io' = [NoIO EXCEPT
                     !.disconnect = 1,
                     !.listener_stop =
                        IF ~is_headless /\ l # "None" THEN 1 ELSE 0,
                     !.destroy_windows = IF ~is_headless /\ d THEN 1 ELSE 0]
         /\ listener' = IF ~is_headless /\ l # "None"
                        THEN "stopped" ELSE listener
    /\ robot' = [robot EXCEPT !.is_connected = FALSE]
    /\ error' = NoError
    /\ timestamp' = 0
    /\ iter' = 0
    /\ hist' = NoHist
    /\ pc' = "stopped"
    /\ UNCHANGED <<headless, events, kpc, keys, phases>>

\* ------------------------------------------------------------ the system
Main ==
    \/ InitKeyboardListener
    \/ ControlLoopCall
    \/ WarmupRecordCall
    \/ RecordEpisodeCall
    \/ CL_Validate
    \/ CL_Iterate
    \/ CL_Check
    \/ CL_Clear
    \/ ResetEnvironmentCall
    \/ RE_Tick
    \/ RE_Check
    \/ RE_Clear
    \/ PhaseReturn
    \/ sanity_check_dataset_robot_compatibility
    \/ StopRecording
    \/ SanityCheckDatasetName

Listener ==
    \/ OnPressRight
    \/ OnPressLeft
    \/ OnPressEsc
    \/ OnPressSetExit

Next == Main \/ Listener

Spec == Init /\ [][Next]_vars

\* ------------------------------------------------------------ properties
InControlLoop == args.fn = "control_loop"
InReset == args.fn = "reset_environment"
InWarmup == args.caller = "warmup_record"
InRecord == args.caller = "record_episode"
Returned == pc = "returned" /\ InControlLoop
MainStep == pc' # pc
NoFurtherKey == keys = hist.setAt.keys /\ kpc = "idle"
Flags == {"exit_early", "rerecord_episode", "stop_recording"}

\* C1: a call with teleoperate=true and a policy is rejected with no robot
\* call before the rejection: no connect, teleop_step, capture_observation
\* or send_action.
C1_RejectedBeforeIO ==
    (pc = "raised" /\ error.line = 225)
        => /\ error.type = "ValueError"
           /\ io.connect = 0
           /\ io.teleop_step = 0
           /\ io.capture_observation = 0
           /\ io.send_action = 0

\* C2: a call whose dataset.fps differs from the requested fps is rejected
\* with no iteration and no add_frame, by the ValueError whose message
\* names both frame rates.
C2_FpsMismatchError ==
    (/\ InControlLoop
     /\ pc # "cl_validate"
     /\ ~(args.teleoperate /\ args.policy # "None")
     /\ args.dataset # None /\ args.fps # None /\ args.dataset # args.fps)
        => /\ pc = "raised"
           /\ iter = 0
           /\ io.add_frame = 0
           /\ error.type = "ValueError"
           /\ error.names = {args.dataset, args.fps}

\* C3: a call with teleoperate=false and no policy (and no frame-rate
\* mismatch, which has its own check) is rejected as an invalid
\* configuration before any iteration: it never captures an observation and
\* never returns normally.
C3_NoPolicyRejected ==
    (/\ InControlLoop
     /\ ~args.teleoperate /\ args.policy = "None"
     /\ ~(args.dataset # None /\ args.fps # None /\ args.dataset # args.fps)
     /\ error.type # "DeviceError")
        => /\ iter = 0
           /\ io.capture_observation = 0
           /\ pc # "returned"

\* C4: an exit_early read true at the end of an iteration is reset to false
\* and the loop ends there, whatever the other two flags are; no other step
\* of control_loop writes the flags.
C4_ExitEarlyConsumed ==
    [][/\ (pc = "cl_check" /\ MainStep /\ ReadExit) => pc' = "cl_clear"
       /\ (pc = "cl_clear" /\ MainStep)
            => /\ pc' = "returned"
               /\ iter' = iter
               /\ io' = io
               /\ args.shared_events => ~events'.exit_early
               /\ events'.rerecord_episode = events.rerecord_episode
               /\ events'.stop_recording = events.stop_recording
       /\ (pc \in {"cl_validate", "cl_while", "cl_check"} /\ MainStep)
            => events' = events]_vars

C4_Witness ==
    /\ Returned
    /\ hist.observed
    /\ TimeLeft(timestamp, args.control_time_s)
    /\ events.rerecord_episode
    /\ ~events.exit_early

\* C5: a loop that has started ends only by duration exhaustion or by an
\* exit_early read true; without time limit only by the latter.
C5_Termination ==
    (/\ InControlLoop
     /\ pc \in {"returned", "raised"}
     /\ error.line \notin {225, 228}
     /\ error.type # "DeviceError")
        => \/ hist.observed
           \/ ~TimeLeft(timestamp, args.control_time_s)

\* C6 (as stated): exit_early set by the listener at any point of iteration
\* k, up to the jump back to the loop test, ends the loop after iteration k
\* with the flag false.
C6_ExitDuringIteration ==
    (Returned /\ args.shared_events /\ hist.setAt.iter >= 1)
        => /\ iter = hist.setAt.iter
           /\ NoFurtherKey => ~events.exit_early

\* C6 (amended): exit_early set during iteration k before the main thread's
\* read of the flag ends the loop after the whole of iteration k, with the
\* flag false; set after that read, it is seen at the end of iteration k+1,
\* or left true if the time was up.
C6_ExitBeforeRead ==
    (Returned /\ args.shared_events /\ hist.setAt.iter >= 1)
        => /\ hist.setAt.pc = "cl_check"
                => /\ iter = hist.setAt.iter
                   /\ io = Act([NoIO EXCEPT !.connect = io.connect])
                          \/ iter > 1
                   /\ io.add_frame = IF args.dataset # None THEN iter ELSE 0
                   /\ hist.observed
                   /\ NoFurtherKey => ~events.exit_early
           /\ (hist.setAt.pc = "cl_while" /\ NoFurtherKey)
                => \/ iter = hist.setAt.iter + 1 /\ ~events.exit_early
                   \/ /\ iter = hist.setAt.iter
                      /\ events.exit_early
                      /\ ~TimeLeft(timestamp, args.control_time_s)

C6_Witness ==
    /\ Returned
    /\ hist.setAt.pc = "cl_check"
    /\ hist.setAt.iter = 2
    /\ iter = 2
    /\ NoFurtherKey
    /\ ~events.exit_early

\* C7 (as stated): the main thread never reads exit_early in a state where
\* a key press has set rerecord_episode or stop_recording but not yet
\* exit_early.
C7_SetTogether ==
    ~(/\ pc \in {"cl_check", "re_check"}
      /\ kpc \in {"left", "esc"}
      /\ ~events.exit_early)

\* C7 (amended): rerecord_episode and stop_recording are written only by
\* the first assignment of a reject/redo or abort key press, which leaves
\* exit_early as it was; the second assignment of the same press then sets
\* exit_early, with the companion flag already true.
C7_SetInOrder ==
    [][/\ events'.rerecord_episode # events.rerecord_episode
            => /\ kpc = "idle" /\ kpc' = "left"
               /\ events'.rerecord_episode
               /\ events'.exit_early = events.exit_early
       /\ events'.stop_recording # events.stop_recording
            => /\ kpc = "idle" /\ kpc' = "esc"
               /\ events'.stop_recording
               /\ events'.exit_early = events.exit_early
       /\ (kpc \in {"left", "esc"} /\ kpc' # kpc)
            => /\ kpc' = "idle"
               /\ events'.exit_early
               /\ kpc = "left" => events'.rerecord_episode
               /\ kpc = "esc" => events'.stop_recording]_vars

C7_Witness ==
    /\ pc = "cl_check"
    /\ kpc = "idle"
    /\ keys = 1
    /\ events.rerecord_episode
    /\ events.exit_early

\* C8: the main thread's read and reset of exit_early act as one step: a
\* reset follows a read that found true, and no listener write to
\* exit_early lands between the two and is wiped out unread.
C8_ReadClearAtomic ==
    /\ hist.cleared => hist.observed
    /\ hist.erased = 0

\* C9: in a headless session init_keyboard_listener returns no listener and
\* three false flags without raising, and the flags stay false through
\* every control_loop and reset_environment call.
C9_HeadlessFlagsStayFalse ==
    headless
        => /\ listener \in {"unset", "None"}
           /\ pc # "start" => listener = "None"
           /\ \A f \in Flags : ~events[f]
           /\ keys = 0
           /\ error.line \notin 117..155

C9_Witness ==
    /\ headless
    /\ listener = "None"
    /\ phases >= 2
    /\ pc \in {"returned", "re_check"}
    /\ iter >= 1

\* C10 (as stated): a paced run that is not ended early executes a number
\* of iterations within one of T*F, overrun iterations included.
C10_IterationCount ==
    (Returned /\ ~hist.observed /\ args.fps # None /\ args.control_time_s # None)
        => /\ iter * Period(args.fps) - args.control_time_s <= Period(args.fps)
           /\ args.control_time_s - iter * Period(args.fps) <= Period(args.fps)

\* C10 (amended): a paced run that is not ended early executes at most
\* ceil(T*F) iterations and at least one when T > 0; it executes exactly
\* ceil(T*F) when no iteration overruns the period 1/F, and every overrun
\* can cost iterations without limit.
C10_IterationCountPaced ==
    (Returned /\ ~hist.observed /\ args.fps # None /\ args.control_time_s # None)
        => /\ iter = 0 <=> args.control_time_s = 0
           /\ iter > 0 => (iter - 1) * Period(args.fps) < args.control_time_s
           /\ hist.overruns = 0
                => args.control_time_s <= iter * Period(args.fps)

C10_Witness ==
    /\ Returned
    /\ ~hist.observed
    /\ args.fps # None
    /\ hist.overruns = 0
    /\ iter >= 2
    /\ iter * Period(args.fps) = args.control_time_s


\* C11 as stated: the wait computed for pacing is never negative, and is 0
\* when the iteration took at least the period.
C11_WaitNeverNegative == hist.wait >= 0

\* C11: with a frame rate, the value computed for pacing is the period minus
\* the elapsed time, negative after an overrun; the wait performed is that
\* value when positive and nothing otherwise, so an iteration lasts exactly
\* the period unless it overran, and then lasts its own work.
C11_WaitIsClampedLater ==
    [][(pc = "cl_while" /\ pc' = "cl_check" /\ args.fps # None)
         => /\ hist'.wait <= Period(args.fps) - 1
            /\ timestamp' - timestamp =
                 Period(args.fps) + (IF hist'.wait < 0 THEN 0 - hist'.wait ELSE 0)
            /\ (hist'.overruns > hist.overruns) <=> (hist'.wait < 0)]_vars

C11_Witness ==
    /\ InControlLoop
    /\ pc = "cl_check"
    /\ args.fps # None
    /\ hist.wait < 0
    /\ timestamp = Period(args.fps) + 1


\* C12: the compatibility check passes exactly when none of robot_type, fps
\* and features differs (features compared without their info entries), and
\* otherwise fails with an error that lists every differing field, once
\* each, in the order robot_type, fps, features.
C12_AllMismatchesReported ==
    (/\ args.fn = "sanity_check_dataset_robot_compatibility"
     /\ pc \in {"returned", "raised"})
    => LET c == args.compat
           D == {f \in {"robot_type", "fps", "features"} :
                   \/ f = "robot_type" /\ c.dataset.robot_type # c.robot_type
                   \/ f = "fps" /\ c.dataset.fps # c.fps
                   \/ f = "features" /\ c.dataset.features.shape # c.features.shape}
           reported == {error.fields[i].field : i \in 1..Len(error.fields)}
           rank(f) == CASE f = "robot_type" -> 1 [] f = "fps" -> 2 [] OTHER -> 3
       IN  /\ (pc = "returned") <=> (D = {})
           /\ pc = "returned" => error = NoError
           /\ pc = "raised" => /\ error.type = "ValueError"
                               /\ reported = D
                               /\ Len(error.fields) = Cardinality(D)
                               /\ \A i, j \in 1..Len(error.fields) :
                                    i < j => rank(error.fields[i].field)
                                               < rank(error.fields[j].field)

C12_Witness ==
    /\ args.fn = "sanity_check_dataset_robot_compatibility"
    /\ pc = "raised"
    /\ Len(error.fields) = 3


\* C13: from its entry on, before the first tick and until it returns,
\* reset_environment has called the safety stop once if the robot has the
\* method and not at all otherwise, and it raises in neither case.
C13_SafetyStopOnce ==
    InReset
    => /\ io.safety_stop = (IF args.has_safety_stop THEN 1 ELSE 0)
       /\ error = NoError
       /\ pc # "raised"

C13_Witness ==
    /\ InReset
    /\ pc = "re_while"
    /\ iter = 0
    /\ args.has_safety_stop
    /\ io.safety_stop = 1

\* C14 as stated: a reset of R seconds that no early exit ends has made
\* exactly R ticks when it returns.
C14_ExactlyRTicks ==
    (InReset /\ pc = "returned" /\ ~hist.observed) => iter = args.reset_time_s

\* C14: a reset of R seconds that no early exit ends makes a tick as long
\* as its measured time is below R seconds: at most R ticks, and exactly R
\* when the sleeps returned less than one second late in all;
\* it calls neither teleop_step nor capture_observation nor send_action;
\* every tick is followed by a read of exit_early, and a read that finds it
\* true is followed by its reset and the return, with no further tick.
C14_TicksUntilTimeIsUp ==
    /\ [](InReset
          => /\ io.teleop_step = 0
             /\ io.capture_observation = 0
             /\ io.send_action = 0
             /\ (pc = "returned" /\ ~hist.observed)
                  => /\ iter <= args.reset_time_s
                     /\ timestamp >= args.reset_time_s * TicksPerSec
                     /\ (timestamp - iter * TicksPerSec < TicksPerSec)
                          => iter = args.reset_time_s)
    /\ [][/\ (pc = "re_while" /\ MainStep)
               => IF timestamp < args.reset_time_s * TicksPerSec
                  THEN iter' = iter + 1 /\ pc' = "re_check"
                  ELSE iter' = iter /\ pc' = "returned"
          /\ (pc = "re_check" /\ MainStep)
               => /\ iter' = iter
                  /\ pc' = (IF events.exit_early THEN "re_clear" ELSE "re_while")
          /\ (pc = "re_clear" /\ MainStep)
               => /\ pc' = "returned"
                  /\ iter' = iter
                  /\ ~events'.exit_early]_vars

C14_Witness ==
    /\ InReset
    /\ pc = "returned"
    /\ ~hist.observed
    /\ args.reset_time_s = 3
    /\ iter = 2


\* C15: when stop_recording has run, the robot has been disconnected, once;
\* in a session that is not headless a listener handle has been stopped and
\* the windows have been closed exactly when cameras were displayed; in a
\* headless session neither has been called.
C15_StopRecording ==
    pc = "stopped"
    => /\ io.disconnect = 1
       /\ ~robot.is_connected
       /\ io.destroy_windows = (IF ~headless /\ args.display_cameras THEN 1 ELSE 0)
       /\ io.listener_stop =
            (IF ~headless /\ args.listener # "None" THEN 1 ELSE 0)
       /\ (io.listener_stop = 1) <=> (listener = "stopped")

C15_Witness ==
    /\ pc = "stopped"
    /\ ~headless
    /\ args.listener = "started"
    /\ ~args.display_cameras
    /\ listener = "stopped"
    /\ io.listener_stop = 1
    /\ io.destroy_windows = 0
    /\ io.disconnect = 1


\* C16: an iteration in which teleop_step, capture_observation,
\* predict_action or send_action raises makes the calls that precede the
\* failing one and that one, each once, appends no frame, leaves the event
\* flags and the time as they were and leaves control_loop with the error;
\* nothing of control_loop runs after that.
C16_FailurePropagates ==
    [][/\ (pc = "cl_while" /\ error'.type = "DeviceError")
            => /\ pc' = "raised"
               /\ iter' = iter + 1
               /\ events' = events
               /\ timestamp' = timestamp
               /\ io'.add_frame = io.add_frame
               /\ io'.teleop_step - io.teleop_step =
                    (IF error'.line = 239 THEN 1 ELSE 0)
               /\ io'.capture_observation - io.capture_observation =
                    (IF error'.line \in {241, 244, 247} THEN 1 ELSE 0)
               /\ io'.predict_action - io.predict_action =
                    (IF error'.line \in {244, 247} THEN 1 ELSE 0)
               /\ io'.send_action - io.send_action =
                    (IF error'.line = 247 THEN 1 ELSE 0)
               /\ error'.line \in {239, 241, 244, 247}
               /\ error'.line = 239 <=> args.teleoperate
               /\ error'.line \in {244, 247} => args.policy # "None"
       /\ pc = "raised"
            => /\ pc' = "raised"
               /\ iter' = iter
               /\ io' = io
               /\ error' = error
               /\ args' = args]_vars

C16_Witness ==
    /\ InControlLoop
    /\ pc = "raised"
    /\ error.type = "DeviceError"
    /\ error.line = 247
    /\ iter = 2
    /\ args.dataset # None
    /\ io.add_frame = 1
    /\ events.exit_early

\* C17 as stated: with a dataset, as long as no robot or policy call has
\* failed, every iteration executed has appended one frame; without a
\* dataset no frame is appended.
C17_FramePerIteration ==
    (InControlLoop /\ error.type # "DeviceError")
    => io.add_frame = (IF args.dataset # None THEN iter ELSE 0)

\* C18: the action put in the frame of an iteration is the one send_action
\* returned in policy-driven mode, also when it is not the predicted one
\* that was sent, and the one teleop_step returned in teleoperation mode.
C18_StoredActionIsApplied ==
    (InControlLoop /\ pc = "cl_check" /\ args.dataset # None)
    => /\ hist.act.stored = hist.act.applied
       /\ args.teleoperate => hist.act.stored = "teleop"
       /\ ~args.teleoperate
            => /\ hist.act.pred = "pred"
               /\ hist.act.stored \in AppliedOutcomes
               /\ io.send_action = iter

C18_Witness ==
    /\ InControlLoop
    /\ pc = "cl_check"
    /\ args.dataset # None
    /\ hist.act.pred = "pred"
    /\ hist.act.applied = "clipped"
    /\ hist.act.stored = "clipped"

\* C19 as stated: a warm-up always runs in teleoperation mode without
\* dataset: as long as no robot call has failed, teleop_step has been called
\* once in every iteration, and no frame is appended.
C19_WarmupTeleoperates ==
    (InWarmup /\ error.type # "DeviceError")
    => /\ args.dataset = None
       /\ io.teleop_step = iter
       /\ io.add_frame = 0

\* C19: a warm-up runs control_loop without dataset and without policy, in
\* teleoperation mode exactly when enable_teleoperation is set: it is never
\* rejected for its mode and never appends a frame; as long as no robot call
\* has failed, every iteration has called teleop_step once when teleoperation
\* is enabled, and capture_observation once and teleop_step never when not.
C19_WarmupAsEnabled ==
    InWarmup
    => /\ InControlLoop
       /\ args.teleoperate = args.enable_teleoperation
       /\ args.dataset = None
       /\ args.policy = "None"
       /\ args.shared_events
       /\ io.add_frame = 0
       /\ io.send_action = 0
       /\ error.line # 225
       /\ error.type # "UnboundLocalError"
       /\ error.type # "DeviceError"
            => /\ io.teleop_step = (IF args.enable_teleoperation THEN iter ELSE 0)
               /\ io.capture_observation =
                    (IF args.enable_teleoperation THEN 0 ELSE iter)

C19_Witness ==
    /\ InWarmup
    /\ pc = "returned"
    /\ ~args.enable_teleoperation
    /\ iter = 2
    /\ io.capture_observation = 2
    /\ io.teleop_step = 0

\* C20: a record phase runs control_loop in teleoperation mode exactly when
\* it has no policy, with its dataset and its episode time; it is never
\* rejected by the mode check and never reaches the recording step without
\* an action.
C20_RecordModeFromPolicy ==
    InRecord
    => /\ InControlLoop
       /\ args.teleoperate = (args.policy = "None")
       /\ args.dataset # None
       /\ args.control_time_s # None
       /\ ActionBound
       /\ error.line # 225
       /\ error.type # "UnboundLocalError"
       /\ (error.type # "DeviceError" /\ error.line # 228)
            => /\ io.add_frame = iter
               /\ io.teleop_step = (IF args.policy = "None" THEN iter ELSE 0)
               /\ io.send_action = (IF args.policy = "None" THEN 0 ELSE iter)

C20_Witness ==
    /\ InRecord
    /\ pc = "returned"
    /\ args.policy = "policy"
    /\ iter = 2
    /\ io.add_frame = 2


\* C21: rerecord_episode and stop_recording change only in a step of the
\* listener that takes a key, and only to true; no step of the main thread,
\* in control_loop, in reset_environment or between phases, changes them,
\* so a flag set by a key is still set when the phase has returned.
C21_FlagsOnlyByListener ==
    [][/\ MainStep
            => /\ events'.rerecord_episode = events.rerecord_episode
               /\ events'.stop_recording = events.stop_recording
       /\ (\/ events'.rerecord_episode # events.rerecord_episode
           \/ events'.stop_recording # events.stop_recording)
            => /\ keys' = keys + 1
               /\ kpc = "idle"
               /\ kpc' \in {"left", "esc"}
               /\ pc' = pc
       /\ events.rerecord_episode => events'.rerecord_episode
       /\ events.stop_recording => events'.stop_recording]_vars

C21_Witness ==
    /\ InReset
    /\ pc = "returned"
    /\ hist.cleared
    /\ iter = 1
    /\ args.reset_time_s >= 2
    /\ events.stop_recording
    /\ ~events.rerecord_episode
    /\ ~events.exit_early


\* C22 as stated: a phase that is given the events dict with exit_early
\* already true, and in which no robot or policy call fails and no
\* configuration check rejects the call, ends as follows: with a positive
\* duration it has made exactly one iteration or tick, has reset the flag
\* and has returned; with duration 0 it has returned without iteration or
\* tick and exit_early is still true.
C22_CarriedIn ==
    (/\ InControlLoop \/ InReset
     /\ hist.startFlag
     /\ args.shared_events
     /\ pc \in {"returned", "raised"}
     /\ error.type # "DeviceError"
     /\ error.line \notin {225, 228})
    => IF (InControlLoop /\ args.control_time_s # 0)
          \/ (InReset /\ args.reset_time_s # 0)
       THEN /\ pc = "returned"
            /\ iter = 1
            /\ hist.observed
            /\ hist.cleared
       ELSE /\ pc = "returned"
            /\ iter = 0
            /\ events.exit_early


\* C23 as stated: for a repo id of the form user/name, the name check
\* returns exactly when the name starts with "eval_" and a policy is given
\* or neither is the case, and otherwise raises a ValueError.
C23_NameCheck ==
    (/\ args.fn = "sanity_check_dataset_name"
     /\ pc \in {"returned", "raised"}
     /\ Len(split(args.repo_id)) = 2)
    => LET name == split(args.repo_id)[2]
           eval == Len(name) >= 1 /\ name[1] = "eval_"
           policy == args.policy_cfg # "None"
       IN  /\ (pc = "returned") <=> (eval <=> policy)
           /\ pc = "raised" => error.type = "ValueError"

====
